---- MODULE Spec2Model ----
(***************************************************************************)
(* Product catalog, stored routines, the background routine regeneration   *)
(* (autoRegenerateRoutines) and the product request handlers               *)
(* (createProduct, updateProduct, deleteProduct) of the skincare backend.  *)
(*                                                                         *)
(* A handler or a regeneration is cut at its awaits on the shared store:   *)
(* one action is one await together with the synchronous code that follows *)
(* it.  Every persistence call and every AI call may fail.                 *)
(*                                                                         *)
(* Abstractions: a step keeps stepNumber and product (instruction and      *)
(* waitTime are copied through and never read); a name is a sequence of    *)
(* characters; the AI numbers the steps of a draft 1..n in order.          *)
(***************************************************************************)
EXTENDS Integers, Sequences, FiniteSets, TLC

\* ------------------------------------------------------------------ bounds
\* requests (create / update / delete) accepted in one behaviour
MaxRequests == 2

\* ------------------------------------------------------- program constants
\* "Need at least 3 products to generate routines"
MinProducts == 3

\* --------------------------------------------------------------- universes
Users == {"u1", "u2"}
Undefined == "undefined"
\* an id under which the collection holds no document
NoProduct == [absent |-> "product"]
NoRoutine == [absent |-> "routine"]
\* a name that is absent (undefined) where a name is expected
MissingName == <<Undefined>>

\* const routineTypes = ['morning', 'night']
routineTypes == <<"morning", "night">>

\* product names in the catalog, and names the AI suggests
NameAb == <<"a", "b">>
NameAbc == <<"A", "b", "c">>
NameD == <<"d">>
NameNew == <<"d", "e">>
AiAbc == <<"a", "b", "c">>
AiD == <<"D">>
AiUnknown == <<"z">>

ProductTypes == {"cleanser", "serum"}
ProductUsages == {"morning", "night"}

\* the catalog the behaviours start from: three active products of u1
InitProducts ==
  << [user |-> "u1", name |-> NameAb, type |-> "cleanser", usage |-> "morning", isActive |-> TRUE],
     [user |-> "u1", name |-> NameAbc, type |-> "serum", usage |-> "morning", isActive |-> TRUE],
     [user |-> "u1", name |-> NameD, type |-> "serum", usage |-> "night", isActive |-> TRUE] >>

\* the routines the behaviours start from: a user-authored morning routine of
\* three steps and an AI-generated night routine of two
InitRoutines ==
  << [user |-> "u1", type |-> "morning", isAIGenerated |-> FALSE,
      steps |-> << [stepNumber |-> 1, product |-> 1],
                   [stepNumber |-> 2, product |-> 2],
                   [stepNumber |-> 3, product |-> 3] >>],
     [user |-> "u1", type |-> "night", isAIGenerated |-> TRUE,
      steps |-> << [stepNumber |-> 1, product |-> 1],
                   [stepNumber |-> 2, product |-> 2] >>] >>

NumInitProducts == Len(InitProducts)
NumInitRoutines == Len(InitRoutines)

\* a store of two users: u2 has three active products of its own, an
\* AI-generated night routine on them, and a user-authored night routine whose
\* first step uses a product of u1
UsersProducts ==
  InitProducts \o
  << [user |-> "u2", name |-> NameAb, type |-> "cleanser", usage |-> "morning", isActive |-> TRUE],
     [user |-> "u2", name |-> NameAbc, type |-> "serum", usage |-> "morning", isActive |-> TRUE],
     [user |-> "u2", name |-> NameD, type |-> "serum", usage |-> "night", isActive |-> TRUE] >>

UsersRoutines ==
  InitRoutines \o
  << [user |-> "u2", type |-> "night", isAIGenerated |-> TRUE,
      steps |-> << [stepNumber |-> 1, product |-> 4],
                   [stepNumber |-> 2, product |-> 5] >>],
     [user |-> "u2", type |-> "night", isAIGenerated |-> FALSE,
      steps |-> << [stepNumber |-> 1, product |-> 1],
                   [stepNumber |-> 2, product |-> 4] >>] >>

ProductIds == 1..(Len(UsersProducts) + MaxRequests)
RoutineIds == 1..(Len(UsersRoutines) + Len(routineTypes) * MaxRequests)
RegenIds == 1..MaxRequests

\* ----------------------------------------------------------- string helpers
\* String.prototype.toLowerCase, on the alphabet of the model
LowerChar(c) ==
  CASE c = "A" -> "a"
    [] c = "B" -> "b"
    [] c = "C" -> "c"
    [] c = "D" -> "d"
    [] OTHER -> c

toLowerCase(s) == [i \in 1..Len(s) |-> LowerChar(s[i])]

\* String.prototype.includes: t occurs in s as a contiguous substring
includes(s, t) ==
  \E i \in 0..(Len(s) - Len(t)) : SubSeq(s, i + 1, i + Len(t)) = t

\* the ids of a set in ascending order (the store returns documents in insertion order)
RECURSIVE SortedIds(_)
SortedIds(S) ==
  IF S = {} THEN <<>>
  ELSE LET m == CHOOSE x \in S : \A y \in S : x <= y
       IN <<m>> \o SortedIds(S \ {m})

\* ------------------------------------------------------------------- state
VARIABLES
  products,     \* Product collection: id -> document or NoProduct
  routines,     \* Routine collection: id -> document or NoRoutine
  routineSeq,   \* number of Routine documents ever created (ids are never reused)
  productSeq,   \* number of Product documents ever created
  regens,       \* the dispatched autoRegenerateRoutines calls: id -> its locals
  nRegens,      \* number of regenerations dispatched
  del,          \* the deleteProduct request in flight, or the last one
  lastResp,     \* the last response sent to a request
  nReq,         \* number of requests accepted
  match,        \* one call of the product matcher: its arguments and its result
  twice,        \* two syntheses in sequence: the AI mock, the routines after the first
  parse,        \* one call of generateSkincareRoutine: the provider's answer, the result
  streaks       \* Streak collection, the server's clock and time zone, the last response

\* the store, the regenerations and the requests
core == <<products, routines, routineSeq, productSeq, regens, nRegens, del, lastResp, nReq>>
\* the calls of the functions that are examined on their own
aux == <<match, twice, parse, streaks>>
vars == <<core, aux>>

\* ---------------------------------------------------------- store queries
\* Product.find({ user: userId, isActive: true }), as [id, name] in insertion order
ActiveProducts(u) ==
  LET ids == SortedIds({p \in ProductIds :
                 /\ products[p] # NoProduct
                 /\ products[p].user = u
                 /\ products[p].isActive})
  IN [i \in 1..Len(ids) |-> [id |-> ids[i], name |-> products[ids[i]].name]]

\* a routine document has a step whose product is pid ('steps.product': id)
ReferencesProduct(r, pid) == \E i \in 1..Len(r.steps) : r.steps[i].product = pid

RoutinesWithProduct_AnyUser(u, pid) ==
  SortedIds({r \in RoutineIds :
     /\ routines[r] # NoRoutine
     /\ ReferencesProduct(routines[r], pid)})

\* Routine.find({ user, 'steps.product': id }): the ids, in insertion order
RoutinesWithProduct(u, pid) ==
  SortedIds({r \in RoutineIds :
     /\ routines[r] # NoRoutine
     /\ routines[r].user = u
     /\ ReferencesProduct(routines[r], pid)})

DeleteManyAI_None(rs, u, type) == rs

DeleteManyAI_AllOfType(rs, u, type) ==
  [r \in RoutineIds |->
     IF rs[r] # NoRoutine /\ rs[r].user = u /\ rs[r].type = type THEN NoRoutine ELSE rs[r]]

\* Routine.deleteMany({ user, type, isAIGenerated: true })
DeleteManyAI(rs, u, type) ==
  [r \in RoutineIds |->
     IF rs[r] # NoRoutine /\ rs[r].user = u /\ rs[r].type = type /\ rs[r].isAIGenerated
       THEN NoRoutine ELSE rs[r]]

\* ------------------------------------------------------ the product matcher
\* the predicate of products.find(...) in autoRegenerateRoutines
NameMatches(pname, aiName) ==
  \/ toLowerCase(pname) = toLowerCase(aiName)
  \/ includes(toLowerCase(aiName), toLowerCase(pname))
  \/ includes(toLowerCase(pname), toLowerCase(aiName))

\* products.find(p => ...): index of the matching product in the list read, 0 if none
MatchingProduct(prods, aiName) ==
  IF \E i \in 1..Len(prods) : NameMatches(prods[i].name, aiName)
    THEN CHOOSE i \in 1..Len(prods) :
           /\ NameMatches(prods[i].name, aiName)
           /\ \A j \in 1..(i - 1) : ~NameMatches(prods[j].name, aiName)
    ELSE 0

\* the loop "for (const aiStep of aiRoutineData.steps)": the bound steps
RECURSIVE MapSteps(_, _)
MapSteps(prods, aiSteps) ==
  IF aiSteps = <<>> THEN <<>>
  ELSE LET aiStep == Head(aiSteps)
           m == MatchingProduct(prods, aiStep.productName)
           rest == MapSteps(prods, Tail(aiSteps))
       IN IF m # 0
            THEN <<[stepNumber |-> aiStep.stepNumber, product |-> prods[m].id]>> \o rest
            ELSE rest

\* aiStep.productName.toLowerCase() throws when the AI left productName out
MatcherThrows(aiSteps) == \E i \in 1..Len(aiSteps) : aiSteps[i].productName = MissingName

InsufficientProducts_Two(prods) == Len(prods) < MinProducts - 1

\* "if (products.length < 3)"
InsufficientProducts(prods) == Len(prods) < MinProducts

HasSteps_Always(steps) == TRUE

\* "if (steps.length > 0)"
HasSteps(steps) == Len(steps) > 0

\* ------------------------------------------------------ the AI collaborator
\* what generateSkincareRoutine hands back: a draft whose steps the AI numbered
\* 1..n, or a thrown error (provider failure, truncation, invalid format)
DraftOf(names) == [i \in 1..Len(names) |-> [stepNumber |-> i, productName |-> names[i]]]

\* the drafts the AI answers with: no step; one step; three steps of which the
\* second names no product of the catalog; a step without productName
AIDrafts ==
  { DraftOf(<<>>),
    DraftOf(<<AiD>>),
    DraftOf(<<AiAbc, AiUnknown, AiD>>),
    DraftOf(<<MissingName>>) }

GenerateErrors == {"provider", "parse"}

\* what one call of generateSkincareRoutine ends with: a throw or a draft
AIAnswers ==
  {[error |-> e, steps |-> <<>>] : e \in GenerateErrors}
    \cup {[error |-> "none", steps |-> d] : d \in AIDrafts}

\* ------------------------------------------------ integrity repair (delete)
\* routine.steps.filter(step => step.product.toString() !== req.params.id)
RECURSIVE FilterSteps(_, _)
FilterSteps(steps, pid) ==
  IF steps = <<>> THEN <<>>
  ELSE IF Head(steps).product # pid
         THEN <<Head(steps)>> \o FilterSteps(Tail(steps), pid)
         ELSE FilterSteps(Tail(steps), pid)

Renumber_Keep(steps) == steps

\* routine.steps.forEach((step, index) => { step.stepNumber = index + 1 })
Renumber(steps) == [i \in 1..Len(steps) |-> [steps[i] EXCEPT !.stepNumber = i]]

\* "if (routine.steps.length === 0)": the routine is deleted, not saved
NoStepsLeft(steps) == Len(steps) = 0

\* ------------------------------------------------------------ update rule
\* const significantChange = req.body.type || req.body.usage !== undefined
\*                           || req.body.isActive !== undefined
significantChange(body) ==
  \/ body.type # Undefined
  \/ body.usage # Undefined
  \/ body.isActive # Undefined

\* findByIdAndUpdate(id, req.body): the fields the body carries are overwritten
ApplyBody(p, body) ==
  [user |-> p.user,
   name |-> IF body.name # MissingName THEN body.name ELSE p.name,
   type |-> IF body.type # Undefined THEN body.type ELSE p.type,
   usage |-> IF body.usage # Undefined THEN body.usage ELSE p.usage,
   isActive |-> IF body.isActive # Undefined THEN body.isActive = "true" ELSE p.isActive]

NoBody == [name |-> MissingName, type |-> Undefined, usage |-> Undefined, isActive |-> Undefined]

\* the request bodies of PUT /api/products/:id
UpdateBodies ==
  { [NoBody EXCEPT !.name = NameNew],
    [NoBody EXCEPT !.isActive = "false"],
    [NoBody EXCEPT !.isActive = "true"],
    [NoBody EXCEPT !.type = "cleanser"],
    [NoBody EXCEPT !.usage = "night"] }

\* the request bodies of POST /api/products
CreateBodies ==
  { [name |-> NameNew, type |-> "cleanser", usage |-> "morning", isActive |-> TRUE] }

\* ---------------------------------------------------------- initial state
\* locals of a regeneration that was not dispatched yet
NoOutcome == [type \in {"morning", "night"} |-> "none"]
UnusedTask ==
  [user |-> Undefined, pc |-> "unused", products |-> <<>>,
   typeIdx |-> 1, steps |-> <<>>, regeneratedCount |-> 0,
   result |-> [regenerated |-> FALSE, reason |-> "pending"],
   outcome |-> NoOutcome, aiCalls |-> 0, writes |-> 0, seen |-> -1, log |-> {}]

IdleDelete ==
  [pc |-> "idle", user |-> Undefined, pid |-> 0, found |-> <<>>, idx |-> 0,
   status |-> 0, dispatched |-> FALSE, regen |-> 0, repairFailed |-> FALSE, before |-> <<>>]

NoResponse == [op |-> "none", status |-> 0, autoRegenerate |-> FALSE]

\* no call of the matcher
NoMatch == [phase |-> "idle", catalog |-> <<>>, name |-> <<>>, result |-> 0]

\* "Keep only last 90 days of history"
HistoryLimit == 90

\* the day the behaviours start on: a history of HistoryLimit days ends on it
StartDay == HistoryLimit

\* a user without a Streak document
NoStreak == [absent |-> "streak"]

\* no streak request
NoCall == [op |-> "none", user |-> Undefined, status |-> 0]

\* the day of a user's last successful updateStreak, and whether the user had
\* already called it that day
NeverUpdated == [day |-> -1, repeated |-> FALSE]

\* an empty Streak collection
NoStreaks ==
  [docs |-> [u \in Users |-> NoStreak], now |-> [day |-> StartDay, hour |-> 0],
   zone |-> "fixed", last |-> NoCall, updated |-> [u \in Users |-> NeverUpdated]]

\* no call of the parser
NoParse == [phase |-> "idle", finishReason |-> "STOP", text |-> <<>>,
            result |-> [error |-> <<>>, parsed |-> FALSE]]

\* no AI mock
NoTwice == [mock |-> <<>>, snap |-> <<>>]

\* the store with the starting catalog and routines, nothing dispatched or requested
InitCore ==
  /\ products = [p \in ProductIds |-> IF p <= NumInitProducts THEN InitProducts[p] ELSE NoProduct]
  /\ routines = [r \in RoutineIds |-> IF r <= NumInitRoutines THEN InitRoutines[r] ELSE NoRoutine]
  /\ routineSeq = NumInitRoutines
  /\ productSeq = NumInitProducts
  /\ regens = [t \in RegenIds |-> UnusedTask]
  /\ nRegens = 0
  /\ del = IdleDelete
  /\ lastResp = NoResponse
  /\ nReq = 0

Init ==
  /\ InitCore
  /\ match = NoMatch
  /\ twice = NoTwice
  /\ parse = NoParse
  /\ streaks = NoStreaks

\* ------------------------------------------------ autoRegenerateRoutines
Dispatched_Awaited(u) ==
  [regens EXCEPT ![nRegens + 1] =
     [UnusedTask EXCEPT !.user = u, !.pc = "done", !.result = [regenerated |-> TRUE, count |-> 0]]]

\* autoRegenerateRoutines(userId) is called: it runs up to its first await
Dispatched(u) == [regens EXCEPT ![nRegens + 1] = [UnusedTask EXCEPT !.user = u, !.pc = "find"]]

Logged_Nothing(task, event) == task

\* console.log, console.warn or console.error of an event of the regeneration
Logged(task, event) == [task EXCEPT !.log = @ \cup {event}]

\* the return value of a completed batch
BatchResult(count) == [regenerated |-> TRUE, count |-> count]

\* the batch returns and the caller's "then" logs the number of routines
Returned(task, count) ==
  Logged([task EXCEPT !.pc = "done", !.products = <<>>, !.result = BatchResult(count)],
         [event |-> "auto-regenerated", count |-> count])

\* line 17: fewer active products than the floor
ReturnedInsufficient(task) ==
  Logged([task EXCEPT !.pc = "done",
                      !.result = [regenerated |-> FALSE, reason |-> "insufficient_products"]],
         [event |-> "not enough products"])

\* lines 92-95: the outer catch logs the error and returns it
OuterCatch(task, message) ==
  Logged([task EXCEPT !.pc = "done", !.result = [regenerated |-> FALSE, error |-> message]],
         [event |-> "error", message |-> message])

\* the end of one pass of "for (const type of routineTypes)": the next type, or return
NextType(task, out) ==
  LET type == routineTypes[task.typeIdx]
      count == IF out = "ok" THEN task.regeneratedCount + 1 ELSE task.regeneratedCount
      t1 == [task EXCEPT !.outcome[type] = out, !.regeneratedCount = count, !.steps = <<>>]
  IN IF task.typeIdx < Len(routineTypes)
       THEN [t1 EXCEPT !.typeIdx = task.typeIdx + 1, !.pc = "gen"]
       ELSE Returned(t1, count)

InnerCatch_Abort(task) ==
  [task EXCEPT !.pc = "done", !.outcome[routineTypes[task.typeIdx]] = "error",
               !.result = [regenerated |-> FALSE, error |-> "aborted"]]

\* the inner "catch (aiError)": the failure is logged and the loop goes on
InnerCatch(task) ==
  NextType(Logged(task, [event |-> "could not regenerate", type |-> routineTypes[task.typeIdx]]),
           "error")

\* a user profile that was not found: "user.skinType" throws in every pass of the
\* loop before generateSkincareRoutine is called, and the loop runs to its end
\* without an await
NoUserProfile(task) ==
  Returned([task EXCEPT !.outcome = [type \in {"morning", "night"} |-> "error"],
                        !.log = @ \cup {[event |-> "could not regenerate", type |-> type] :
                                          type \in {"morning", "night"}}],
           0)

\* lines 10-28: Product.find, the 3-product floor, User.findById, Routine.find
RegenReadCatalog(t) ==
  /\ regens[t].pc = "find"
  /\ \E reads \in {"ok", "Product.find fails", "User.findById fails", "no user profile"} :
       LET task == regens[t]
           prods == ActiveProducts(task.user)
           seen == [task EXCEPT !.seen = Len(prods)]
       IN regens' = [regens EXCEPT ![t] =
            IF reads = "Product.find fails"
              THEN OuterCatch(task, reads)
            ELSE IF InsufficientProducts(prods)
              THEN ReturnedInsufficient(seen)
            ELSE IF reads = "User.findById fails"
              THEN OuterCatch(seen, reads)
            ELSE IF reads = "no user profile"
              THEN NoUserProfile(seen)
            ELSE [seen EXCEPT !.pc = "gen", !.products = prods, !.typeIdx = 1]]
  /\ UNCHANGED <<products, routines, routineSeq, productSeq, nRegens, del, lastResp, nReq, aux>>

\* lines 36-60: generateSkincareRoutine ends with answer, and the steps of its
\* draft are mapped to products
RegenGenerateWith(t, answer) ==
  /\ regens[t].pc = "gen"
  /\ LET task == regens[t]
         called == [task EXCEPT !.aiCalls = @ + 1]
         steps == MapSteps(task.products, answer.steps)
     IN regens' = [regens EXCEPT ![t] =
          IF answer.error # "none" THEN InnerCatch(called)
          ELSE IF MatcherThrows(answer.steps) THEN InnerCatch(called)
          ELSE IF HasSteps(steps) THEN [called EXCEPT !.steps = steps, !.pc = "delete"]
          ELSE NextType(called, "skipped")]
  /\ UNCHANGED <<products, routines, routineSeq, productSeq, nRegens, del, lastResp, nReq, aux>>

\* the AI collaborator answers as it likes
RegenGenerate(t) == \E answer \in AIAnswers : RegenGenerateWith(t, answer)

\* lines 64-68: Routine.deleteMany of the existing AI routine of this type
RegenDeleteExisting(t) ==
  /\ regens[t].pc = "delete"
  /\ LET task == regens[t]
         type == routineTypes[task.typeIdx]
     IN \/ /\ routines' = DeleteManyAI(routines, task.user, type)
           /\ regens' = [regens EXCEPT ![t] = [task EXCEPT !.pc = "create", !.writes = @ + 1]]
        \/ /\ regens' = [regens EXCEPT ![t] = InnerCatch(task)]
           /\ UNCHANGED routines
  /\ UNCHANGED <<products, routineSeq, productSeq, nRegens, del, lastResp, nReq, aux>>

\* lines 71-80: Routine.create of the new routine, regeneratedCount++
RegenCreate(t) ==
  /\ regens[t].pc = "create"
  /\ LET task == regens[t]
         type == routineTypes[task.typeIdx]
     IN \/ /\ routines' = [routines EXCEPT ![routineSeq + 1] =
                  [user |-> task.user, type |-> type, isAIGenerated |-> TRUE, steps |-> task.steps]]
           /\ routineSeq' = routineSeq + 1
           /\ regens' = [regens EXCEPT ![t] = NextType([task EXCEPT !.writes = @ + 1], "ok")]
        \/ /\ regens' = [regens EXCEPT ![t] = InnerCatch(task)]
           /\ UNCHANGED <<routines, routineSeq>>
  /\ UNCHANGED <<products, productSeq, nRegens, del, lastResp, nReq, aux>>

\* ------------------------------------------------------- request handlers
Response(op, u, pid, status, auto) ==
  [op |-> op, status |-> status, autoRegenerate |-> auto]

\* createProduct: Product.create, the background regeneration, the 201 response;
\* a failed Product.create goes to next(error)
CreateProduct(u) ==
  /\ nReq < MaxRequests
  /\ nReq' = nReq + 1
  /\ \E body \in CreateBodies :
       \/ /\ products' = [products EXCEPT ![productSeq + 1] =
                 [user |-> u, name |-> body.name, type |-> body.type,
                  usage |-> body.usage, isActive |-> body.isActive]]
          /\ productSeq' = productSeq + 1
          /\ regens' = Dispatched(u)
          /\ nRegens' = nRegens + 1
          /\ lastResp' = Response("create", u, productSeq + 1, 201, TRUE)
       \/ /\ lastResp' = Response("create", u, 0, 500, FALSE)
          /\ UNCHANGED <<products, productSeq, regens, nRegens>>
  /\ UNCHANGED <<routines, routineSeq, del, aux>>

\* updateProduct: findById, the ownership check, findByIdAndUpdate, the
\* regeneration when significantChange, the 200 response
UpdateProduct(u, pid) ==
  /\ nReq < MaxRequests
  /\ nReq' = nReq + 1
  /\ \/ /\ products[pid] = NoProduct
        /\ lastResp' = Response("update", u, pid, 404, FALSE)
        /\ UNCHANGED <<products, regens, nRegens>>
     \/ /\ products[pid] # NoProduct
        /\ products[pid].user # u
        /\ lastResp' = Response("update", u, pid, 403, FALSE)
        /\ UNCHANGED <<products, regens, nRegens>>
     \/ /\ products[pid] # NoProduct
        /\ products[pid].user = u
        /\ \E body \in UpdateBodies :
             \/ /\ products' = [products EXCEPT ![pid] = ApplyBody(@, body)]
                /\ IF significantChange(body)
                     THEN regens' = Dispatched(u) /\ nRegens' = nRegens + 1
                     ELSE UNCHANGED <<regens, nRegens>>
                /\ lastResp' = Response("update", u, pid, 200, significantChange(body))
             \/ /\ lastResp' = Response("update", u, pid, 500, FALSE)
                /\ UNCHANGED <<products, regens, nRegens>>
  /\ UNCHANGED <<routines, routineSeq, productSeq, del, aux>>

\* deleteProduct up to the loop: findById, the ownership check, Routine.find
DeleteProductBegin(u, pid) ==
  /\ nReq < MaxRequests
  /\ del.pc \in {"idle", "done"}
  /\ nReq' = nReq + 1
  /\ \/ /\ products[pid] = NoProduct
        /\ lastResp' = Response("delete", u, pid, 404, FALSE)
        /\ del' = [IdleDelete EXCEPT !.pc = "done", !.user = u, !.pid = pid, !.status = 404]
     \/ /\ products[pid] # NoProduct
        /\ products[pid].user # u
        /\ lastResp' = Response("delete", u, pid, 403, FALSE)
        /\ del' = [IdleDelete EXCEPT !.pc = "done", !.user = u, !.pid = pid, !.status = 403]
     \/ /\ products[pid] # NoProduct
        /\ products[pid].user = u
        /\ LET found == RoutinesWithProduct(u, pid)
           IN del' = [IdleDelete EXCEPT
                        !.pc = IF found = <<>> THEN "remove" ELSE "repair",
                        !.user = u, !.pid = pid,
                        !.found = [i \in 1..Len(found) |->
                                     [id |-> found[i], steps |-> routines[found[i]].steps]],
                        !.idx = 1,
                        !.before = routines]
        /\ UNCHANGED lastResp
     \/ /\ lastResp' = Response("delete", u, pid, 500, FALSE)
        /\ del' = [IdleDelete EXCEPT !.pc = "done", !.user = u, !.pid = pid, !.status = 500]
  /\ UNCHANGED <<products, routines, routineSeq, productSeq, regens, nRegens, aux>>

RepairCatch_Swallow(d) ==
  [d EXCEPT !.repairFailed = TRUE, !.idx = @ + 1,
            !.pc = IF d.idx = Len(d.found) THEN "remove" ELSE "repair"]

\* the outer "catch (error) { next(error) }" of deleteProduct during the repair
RepairCatch(d) == [d EXCEPT !.pc = "done", !.status = 500, !.repairFailed = TRUE]

AfterPass_Break(d) == [d EXCEPT !.idx = @ + 1, !.pc = "remove"]

\* the end of one pass of the repair loop: the next routine found, or, after the
\* last one, on to Product.findByIdAndDelete
AfterPass(d) ==
  [d EXCEPT !.idx = @ + 1, !.pc = IF d.idx = Len(d.found) THEN "remove" ELSE "repair"]

\* one pass of "for (const routine of routinesWithProduct)": the routine read
\* earlier is filtered, then deleted (no step left) or renumbered and saved.
\* save() of a document that is gone meanwhile writes nothing.
DeleteProductRepair ==
  /\ del.pc = "repair"
  /\ LET routine == del.found[del.idx]
         steps == FilterSteps(routine.steps, del.pid)
         stored == IF NoStepsLeft(steps) THEN NoRoutine
                   ELSE IF routines[routine.id] = NoRoutine THEN NoRoutine
                   ELSE [routines[routine.id] EXCEPT !.steps = Renumber(steps)]
     IN \/ /\ routines' = [routines EXCEPT ![routine.id] = stored]
           /\ del' = AfterPass(del)
           /\ UNCHANGED lastResp
        \/ /\ del' = RepairCatch(del)
           /\ lastResp' = Response("delete", del.user, del.pid, 500, FALSE)
           /\ UNCHANGED routines
  /\ UNCHANGED <<products, routineSeq, productSeq, regens, nRegens, nReq, aux>>

\* deleteProduct after the loop: Product.findByIdAndDelete, the background
\* regeneration, the 200 response
DeleteProductRemove ==
  /\ del.pc = "remove"
  /\ \/ /\ products' = [products EXCEPT ![del.pid] = NoProduct]
        /\ regens' = Dispatched(del.user)
        /\ nRegens' = nRegens + 1
        /\ lastResp' = Response("delete", del.user, del.pid, 200, TRUE)
        /\ del' = [del EXCEPT !.pc = "done", !.status = 200, !.dispatched = TRUE,
                              !.regen = nRegens + 1]
     \/ /\ lastResp' = Response("delete", del.user, del.pid, 500, FALSE)
        /\ del' = [del EXCEPT !.pc = "done", !.status = 500]
        /\ UNCHANGED <<products, regens, nRegens>>
  /\ UNCHANGED <<routines, routineSeq, productSeq, nReq, aux>>

\* ------------------------------------------------------------ specification
Next ==
  \/ \E u \in Users : CreateProduct(u)
  \/ \E u \in Users, pid \in ProductIds : UpdateProduct(u, pid)
  \/ \E u \in Users, pid \in ProductIds : DeleteProductBegin(u, pid)
  \/ DeleteProductRepair
  \/ DeleteProductRemove
  \/ \E t \in RegenIds : RegenReadCatalog(t)
  \/ \E t \in RegenIds : RegenGenerate(t)
  \/ \E t \in RegenIds : RegenDeleteExisting(t)
  \/ \E t \in RegenIds : RegenCreate(t)

Spec == Init /\ [][Next]_vars

\* the store of two users, nothing dispatched or requested
InitUsers ==
  /\ products = [p \in ProductIds |-> IF p <= Len(UsersProducts) THEN UsersProducts[p] ELSE NoProduct]
  /\ routines = [r \in RoutineIds |-> IF r <= Len(UsersRoutines) THEN UsersRoutines[r] ELSE NoRoutine]
  /\ routineSeq = Len(UsersRoutines)
  /\ productSeq = Len(UsersProducts)
  /\ regens = [t \in RegenIds |-> UnusedTask]
  /\ nRegens = 0
  /\ del = IdleDelete
  /\ lastResp = NoResponse
  /\ nReq = 0
  /\ match = NoMatch
  /\ twice = NoTwice
  /\ parse = NoParse
  /\ streaks = NoStreaks

SpecUsers == InitUsers /\ [][Next]_vars

\* every await of a dispatched regeneration settles: the AI call has a 30 s
\* timeout and the persistence calls return or fail
RegenAdvances(t) ==
  RegenReadCatalog(t) \/ RegenGenerate(t) \/ RegenDeleteExisting(t) \/ RegenCreate(t)

\* the store with the starting routines and a catalog whose third product is
\* active or not, nothing dispatched
InitFair ==
  /\ \E active \in BOOLEAN :
       products = [p \in ProductIds |->
                     IF p < NumInitProducts THEN InitProducts[p]
                     ELSE IF p = NumInitProducts THEN [InitProducts[p] EXCEPT !.isActive = active]
                     ELSE NoProduct]
  /\ routines = [r \in RoutineIds |-> IF r <= NumInitRoutines THEN InitRoutines[r] ELSE NoRoutine]
  /\ routineSeq = NumInitRoutines
  /\ productSeq = NumInitProducts
  /\ regens = [t \in RegenIds |-> UnusedTask]
  /\ nRegens = 0
  /\ del = IdleDelete
  /\ lastResp = NoResponse
  /\ nReq = 0
  /\ match = NoMatch
  /\ twice = NoTwice
  /\ parse = NoParse
  /\ streaks = NoStreaks

\* lines 177-183, 230-236, 306-312: a handler calls autoRegenerateRoutines for
\* its user and goes on without awaiting it
RegenDispatch(u) ==
  /\ nRegens < MaxRequests
  /\ regens' = Dispatched(u)
  /\ nRegens' = nRegens + 1
  /\ UNCHANGED <<products, routines, routineSeq, productSeq, del, lastResp, nReq, aux>>

NextFair ==
  \/ \E u \in Users : RegenDispatch(u)
  \/ \E t \in RegenIds : RegenReadCatalog(t)
  \/ \E t \in RegenIds : RegenGenerate(t)
  \/ \E t \in RegenIds : RegenDeleteExisting(t)
  \/ \E t \in RegenIds : RegenCreate(t)

SpecFair == InitFair /\ [][NextFair]_vars /\ \A t \in RegenIds : WF_vars(RegenAdvances(t))

\* ------------------------------------------------- the matcher on its own
\* candidates in one catalog
MaxCatalog == 3

CandidateNames == {NameAb, NameAbc, NameD, NameNew}
SuggestedNames == {AiAbc, AiD, AiUnknown, NameNew, <<"b">>, <<"A", "B">>}

\* the catalogs: up to MaxCatalog products with distinct names, as Product.find returns them
Catalogs ==
  UNION {{[i \in 1..n |-> [id |-> i, name |-> f[i]]] :
            f \in {g \in [1..n -> CandidateNames] : \A i, j \in 1..n : g[i] = g[j] => i = j}} :
         n \in 0..MaxCatalog}

InitMatcher ==
  /\ InitCore
  /\ match \in {[phase |-> "called", catalog |-> c, name |-> n, result |-> 0] :
                  c \in Catalogs, n \in SuggestedNames}
  /\ twice = NoTwice
  /\ parse = NoParse
  /\ streaks = NoStreaks

\* const matchingProduct = products.find(...) for one AI step
MatchProduct ==
  /\ match.phase = "called"
  /\ match' = [match EXCEPT !.phase = "returned",
                            !.result = MatchingProduct(match.catalog, match.name)]
  /\ UNCHANGED <<core, twice, parse, streaks>>

NextMatcher == MatchProduct

SpecMatcher == InitMatcher /\ [][NextMatcher]_vars

\* --------------------------------------------- two syntheses in sequence
\* the user whose routines are synthesized twice
TwiceUser == "u1"

\* a fourth product of the user
FourthProduct ==
  [user |-> TwiceUser, name |-> NameNew, type |-> "cleanser", usage |-> "morning", isActive |-> TRUE]

\* a deterministic AI: one answer per routine type
AIMocks == [{"morning", "night"} -> AIAnswers]

\* four products of the user, each active or not, the starting routines, a
\* deterministic AI and a first regeneration dispatched
InitTwice ==
  /\ \E active \in [1..(NumInitProducts + 1) -> BOOLEAN] :
       products = [p \in ProductIds |->
                     IF p <= NumInitProducts THEN [InitProducts[p] EXCEPT !.isActive = active[p]]
                     ELSE IF p = NumInitProducts + 1 THEN [FourthProduct EXCEPT !.isActive = active[p]]
                     ELSE NoProduct]
  /\ routines = [r \in RoutineIds |-> IF r <= NumInitRoutines THEN InitRoutines[r] ELSE NoRoutine]
  /\ routineSeq = NumInitRoutines
  /\ productSeq = NumInitProducts + 1
  /\ regens = [t \in RegenIds |->
                 IF t = 1 THEN [UnusedTask EXCEPT !.user = TwiceUser, !.pc = "find"] ELSE UnusedTask]
  /\ nRegens = 1
  /\ del = IdleDelete
  /\ lastResp = NoResponse
  /\ nReq = 0
  /\ match = NoMatch
  /\ twice \in {[mock |-> m, snap |-> <<>>] : m \in AIMocks}
  /\ parse = NoParse
  /\ streaks = NoStreaks

\* generateSkincareRoutine answers what the mock holds for the type
RegenGenerateMock(t) ==
  /\ regens[t].pc = "gen"
  /\ RegenGenerateWith(t, twice.mock[routineTypes[regens[t].typeIdx]])

\* the first regeneration is over: the same user's routines are synthesized again
SynthesizeAgain ==
  /\ nRegens = 1
  /\ regens[1].pc = "done"
  /\ regens' = Dispatched(TwiceUser)
  /\ nRegens' = nRegens + 1
  /\ twice' = [twice EXCEPT !.snap = routines]
  /\ UNCHANGED <<products, routines, routineSeq, productSeq, del, lastResp, nReq, match, parse,
                 streaks>>

NextTwice ==
  \/ \E t \in RegenIds : RegenReadCatalog(t)
  \/ \E t \in RegenIds : RegenGenerateMock(t)
  \/ \E t \in RegenIds : RegenDeleteExisting(t)
  \/ \E t \in RegenIds : RegenCreate(t)
  \/ SynthesizeAgain

SpecTwice == InitTwice /\ [][NextTwice]_vars

\* ------------------------------------------------- geminiService.js
\* the longest text of a provider answer, in tokens
MaxTextLen == 4

\* the tokens of a text: the braces of the JSON object, its "steps" member with
\* an array value, prose, white space, and the markdown fences that open a json block or close
\* a block
Tokens == {"{", "}", "steps", "prose", " ", "fence json", "fence"}

\* candidates[0].finishReason
FinishReasons == {"STOP", "MAX_TOKENS", "SAFETY", "OTHER"}

Texts == UNION {[1..n -> Tokens] : n \in 0..MaxTextLen}

RECURSIVE TrimStart(_)
\* the text without its leading white space
TrimStart(s) == IF s # <<>> /\ Head(s) = " " THEN TrimStart(Tail(s)) ELSE s

RECURSIVE TrimEnd(_)
\* the text without its trailing white space
TrimEnd(s) == IF s # <<>> /\ s[Len(s)] = " " THEN TrimEnd(SubSeq(s, 1, Len(s) - 1)) ELSE s

\* String.prototype.trim
trim(s) == TrimEnd(TrimStart(s))

RECURSIVE WithoutSpace(_)
\* the tokens JSON.parse reads: white space between them is skipped
WithoutSpace(s) ==
  IF s = <<>> THEN <<>>
  ELSE IF Head(s) = " " THEN WithoutSpace(Tail(s))
  ELSE <<Head(s)>> \o WithoutSpace(Tail(s))

\* lines 60-76 of getGeminiResponse: the finish reason, then the text; its own
\* catch rethrows these errors as they are
getGeminiResponse(finishReason, text) ==
  IF finishReason = "MAX_TOKENS"
    THEN [error |-> <<"Response too long. Please try with fewer products.">>, text |-> <<>>]
  ELSE IF finishReason = "SAFETY"
    THEN [error |-> <<"Response blocked by safety filters">>, text |-> <<>>]
  ELSE IF text = <<>>
    THEN [error |-> <<"Unexpected response format from Gemini API">>, text |-> <<>>]
  ELSE [error |-> <<>>, text |-> text]

\* lines 163-168: trim, then the three replace calls that remove the fences
cleanedResponse(aiResponse) ==
  LET trimmed == trim(aiResponse)
      r1 == IF trimmed # <<>> /\ Head(trimmed) = "fence json" THEN TrimStart(Tail(trimmed)) ELSE trimmed
      r2 == IF r1 # <<>> /\ Head(r1) = "fence" THEN TrimStart(Tail(r1)) ELSE r1
  IN IF r2 # <<>> /\ r2[Len(r2)] = "fence" THEN TrimEnd(SubSeq(r2, 1, Len(r2) - 1)) ELSE r2

\* cleanedResponse.match(/\{[\s\S]*\}/): from the first "{" to the last "}", or
\* the empty text when there is no match
jsonMatch(cleaned) ==
  LET opens == {i \in 1..Len(cleaned) : cleaned[i] = "{"}
      closes == {i \in 1..Len(cleaned) : cleaned[i] = "}"}
      first == CHOOSE i \in opens : \A j \in opens : i <= j
      last == CHOOSE i \in closes : \A j \in closes : j <= i
  IN IF opens # {} /\ closes # {} /\ first < last THEN SubSeq(cleaned, first, last) ELSE <<>>

\* JSON.parse: the text is an object, with or without the steps array, or it
\* is a SyntaxError
JSONParse(s) ==
  LET read == WithoutSpace(s)
  IN [syntaxError |-> read \notin {<<"{", "}">>, <<"{", "steps", "}">>},
      steps |-> read = <<"{", "steps", "}">>]

\* lines 161-201: the body of the inner try; error is the message of what it throws
ParseResponse(aiResponse) ==
  LET cleaned == cleanedResponse(aiResponse)
      jsonString == jsonMatch(cleaned)
      trimmedJson == trim(jsonString)
      parsedResponse == IF jsonString # <<>> THEN JSONParse(jsonString) ELSE JSONParse(cleaned)
  IN IF jsonString # <<>> /\ trimmedJson[Len(trimmedJson)] # "}"
       THEN <<"AI response was truncated. Please try again.">>
     ELSE IF parsedResponse.syntaxError
       THEN <<"SyntaxError">>
     ELSE IF ~parsedResponse.steps
       THEN <<"Invalid response structure: missing or invalid steps array">>
     ELSE <<>>

\* generateSkincareRoutine: an error of getGeminiResponse is rethrown as it is
\* (lines 210-213), an error of the inner try is wrapped (lines 203-207)
generateSkincareRoutine(finishReason, text) ==
  LET aiResponse == getGeminiResponse(finishReason, text)
      parseError == ParseResponse(aiResponse.text)
  IN IF aiResponse.error # <<>> THEN [error |-> aiResponse.error, parsed |-> FALSE]
     ELSE IF parseError # <<>>
       THEN [error |-> <<"AI generated invalid response format: ">> \o parseError, parsed |-> FALSE]
     ELSE [error |-> <<>>, parsed |-> TRUE]

\* a call of generateSkincareRoutine with any answer of the provider
InitParser ==
  /\ InitCore
  /\ match = NoMatch
  /\ twice = NoTwice
  /\ parse \in {[phase |-> "called", finishReason |-> f, text |-> t,
                  result |-> [error |-> <<>>, parsed |-> FALSE]] :
                  f \in FinishReasons, t \in Texts}
  /\ streaks = NoStreaks

GenerateSkincareRoutine ==
  /\ parse.phase = "called"
  /\ parse' = [parse EXCEPT !.phase = "returned",
                            !.result = generateSkincareRoutine(parse.finishReason, parse.text)]
  /\ UNCHANGED <<core, match, twice, streaks>>

NextParser == GenerateSkincareRoutine

SpecParser == InitParser /\ [][NextParser]_vars

\* ------------------------------------------------ getStreak, updateStreak
\* the number of days the clock runs after StartDay
MaxDays == 2

\* 1000 * 60 * 60 * 24 ms, in hours
HoursPerDay == 24

\* the hours of the day at which requests arrive
Hours == {0, 9}

\* the server's time zone: without daylight saving time, or with the clocks
\* set forward one hour on DstDay, a day of 23 hours
Zones == {"fixed", "spring forward"}
DstDay == StartDay + 1

\* Date.prototype.getTime, in hours: the local day and hour of a Date in the zone
getTime(date, zone) ==
  HoursPerDay * date.day + date.hour
    - (IF zone = "spring forward"
          /\ (date.day > DstDay \/ (date.day = DstDay /\ date.hour >= 3))
         THEN 1 ELSE 0)

\* date.setHours(0, 0, 0, 0): local midnight of the date's day
setHours0(date) == [date EXCEPT !.hour = 0]

\* the document getStreak creates (lines 338-345)
InitialStreak(now) ==
  [currentStreak |-> 1, longestStreak |-> 1, lastLoginDate |-> now, totalLogins |-> 1,
   loginHistory |-> << [date |-> now, routineCompleted |-> FALSE] >>]

\* the document updateStreak creates (lines 367-374)
FirstStreak(today) ==
  [currentStreak |-> 1, longestStreak |-> 1, lastLoginDate |-> today, totalLogins |-> 1,
   loginHistory |-> << [date |-> today, routineCompleted |-> TRUE] >>]

\* the document of a user who called updateStreak on each of the HistoryLimit
\* days up to StartDay
LongStreak ==
  [currentStreak |-> HistoryLimit, longestStreak |-> HistoryLimit,
   lastLoginDate |-> [day |-> StartDay, hour |-> 0], totalLogins |-> HistoryLimit,
   loginHistory |-> [i \in 1..HistoryLimit |->
                      [date |-> [day |-> StartDay - HistoryLimit + i, hour |-> 0],
                       routineCompleted |-> TRUE]]]

FindTodayEntry_None(history, today, zone) == 0

\* lines 377-381: loginHistory.find of the entry of today; its index, 0 when
\* there is none
FindTodayEntry(history, today, zone) ==
  LET found == {i \in 1..Len(history) :
                  getTime(setHours0(history[i].date), zone) = getTime(today, zone)}
  IN IF found = {} THEN 0 ELSE CHOOSE i \in found : \A j \in found : i <= j

\* loginHistory.slice(-90) when the history is longer than 90
KeepLast(history) ==
  IF Len(history) > HistoryLimit
    THEN SubSeq(history, Len(history) - HistoryLimit + 1, Len(history))
    ELSE history

\* streak.checkAchievements(): it records achievements, which are no part of
\* the fields held here
checkAchievements(streak) == streak

\* lines 376-417: the document updateStreak saves for an existing streak
UpdatedStreak(streak, today, zone) ==
  LET todayEntry == FindTodayEntry(streak.loginHistory, today, zone)
      lastLogin == setHours0(streak.lastLoginDate)
      diffDays == (getTime(today, zone) - getTime(lastLogin, zone)) \div HoursPerDay
      current == IF diffDays = 1 THEN streak.currentStreak + 1
                 ELSE IF diffDays > 1 THEN 1
                 ELSE streak.currentStreak
      longest == IF diffDays = 1 /\ current > streak.longestStreak
                   THEN current ELSE streak.longestStreak
  IN IF todayEntry # 0
       THEN [streak EXCEPT !.loginHistory[todayEntry].routineCompleted = TRUE]
       ELSE checkAchievements(
              [currentStreak |-> current, longestStreak |-> longest,
               lastLoginDate |-> today, totalLogins |-> streak.totalLogins + 1,
               loginHistory |->
                 KeepLast(Append(streak.loginHistory,
                                 [date |-> today, routineCompleted |-> TRUE]))])

\* updateStreak of a user succeeded on a day
UpdatedOn(updated, day) == [day |-> day, repeated |-> updated.day = day]

\* the streak request is answered
Answered(op, u, status) == [op |-> op, user |-> u, status |-> status]

\* each user has no streak yet or a long one, and the server is in either zone
InitStreaks ==
  /\ InitCore
  /\ match = NoMatch
  /\ twice = NoTwice
  /\ parse = NoParse
  /\ \E long \in SUBSET Users, zone \in Zones :
       streaks = [docs |-> [u \in Users |-> IF u \in long THEN LongStreak ELSE NoStreak],
                  now |-> [day |-> StartDay, hour |-> 0],
                  zone |-> zone,
                  last |-> NoCall,
                  updated |-> [u \in Users |->
                                IF u \in long THEN UpdatedOn(NeverUpdated, StartDay)
                                ELSE NeverUpdated]]

\* getStreak: findOne, create when there is none, the 200 response; a failed
\* findOne or create goes to next(error)
GetStreak(u) ==
  /\ \/ /\ streaks.docs[u] = NoStreak
        /\ streaks' = [streaks EXCEPT !.docs[u] = InitialStreak(streaks.now),
                                      !.last = Answered("getStreak", u, 200)]
     \/ /\ streaks.docs[u] # NoStreak
        /\ streaks' = [streaks EXCEPT !.last = Answered("getStreak", u, 200)]
     \/ streaks' = [streaks EXCEPT !.last = Answered("getStreak", u, 500)]
  /\ UNCHANGED <<core, match, twice, parse>>

\* updateStreak: findOne, create or update and save, the 200 response; a failed
\* findOne, create or save goes to next(error) and stores nothing
UpdateStreak(u) ==
  /\ LET today == setHours0(streaks.now)
     IN \/ /\ streaks.docs[u] = NoStreak
           /\ streaks' = [streaks EXCEPT !.docs[u] = FirstStreak(today),
                                         !.last = Answered("updateStreak", u, 200),
                                         !.updated[u] = UpdatedOn(@, today.day)]
        \/ /\ streaks.docs[u] # NoStreak
           /\ streaks' = [streaks EXCEPT
                            !.docs[u] = UpdatedStreak(streaks.docs[u], today, streaks.zone),
                            !.last = Answered("updateStreak", u, 200),
                            !.updated[u] = UpdatedOn(@, today.day)]
        \/ streaks' = [streaks EXCEPT !.last = Answered("updateStreak", u, 500)]
  /\ UNCHANGED <<core, match, twice, parse>>

\* the clock goes on to a later hour or day
Tick ==
  /\ \E day \in StartDay..(StartDay + MaxDays), hour \in Hours :
       /\ \/ day > streaks.now.day
          \/ day = streaks.now.day /\ hour > streaks.now.hour
       /\ streaks' = [streaks EXCEPT !.now = [day |-> day, hour |-> hour]]
  /\ UNCHANGED <<core, match, twice, parse>>

NextStreaks ==
  \/ \E u \in Users : GetStreak(u)
  \/ \E u \in Users : UpdateStreak(u)
  \/ Tick

SpecStreaks == InitStreaks /\ [][NextStreaks]_vars

\* ------------------------------------------------------------------ claims
StoredRoutines == {r \in RoutineIds : routines[r] # NoRoutine}
DoneRegens == {t \in RegenIds : regens[t].pc = "done"}

\* the stepNumber values of a step list are exactly 1..N
DenseStepNumbers(steps) ==
  {steps[i].stepNumber : i \in 1..Len(steps)} = 1..Len(steps)

\* C1: every stored routine's steps carry the stepNumber values 1..N, with no
\* gap and no duplicate, whether the routine was written by the synthesizer or
\* rewritten by integrity repair.
C1_StepNumbersContiguous ==
  \A r \in StoredRoutines : DenseStepNumbers(routines[r].steps)

\* C2: every step of every stored routine references a product that exists in
\* the catalog, also while a regeneration that read the catalog earlier is in
\* flight during or after a product deletion.
C2_NoDanglingProductReference ==
  \A r \in StoredRoutines :
    \A i \in 1..Len(routines[r].steps) :
      products[routines[r].steps[i].product] # NoProduct

\* C3: for every user and routine type at most one routine with
\* isAIGenerated = true is stored, for every interleaving of regenerations.
C3_AtMostOneAIRoutinePerType ==
  \A u \in Users, type \in {"morning", "night"} :
    Cardinality({r \in StoredRoutines :
       /\ routines[r].user = u
       /\ routines[r].type = type
       /\ routines[r].isAIGenerated}) <= 1

\* C4: no stored routine has zero steps: the synthesizer creates no routine
\* from an empty list of bound steps, and integrity repair deletes a routine
\* all of whose steps referenced the deleted product.
C4_NoEmptyRoutine ==
  \A r \in StoredRoutines : Len(routines[r].steps) >= 1

\* C4 witness: a regeneration skipped a type because no step was bound, and a
\* delete removed a routine whose only step referenced the deleted product.
C4_Witness ==
  /\ \E t \in RegenIds : \E type \in {"morning", "night"} : regens[t].outcome[type] = "skipped"
  /\ del.pc = "done"
  /\ del.status = 200
  /\ \E i \in 1..Len(del.found) :
       /\ \A k \in 1..Len(del.found[i].steps) : del.found[i].steps[k].product = del.pid
       /\ routines[del.found[i].id] = NoRoutine

\* the indices of the steps that do not reference product pid
KeptIdx(steps, pid) == {i \in 1..Len(steps) : steps[i].product # pid}

\* the j-th smallest of them
NthKept(steps, pid, j) ==
  CHOOSE k \in KeptIdx(steps, pid) :
    Cardinality({m \in KeptIdx(steps, pid) : m < k}) = j - 1

\* new is old without the steps that reference pid, in the same relative order,
\* numbered 1..N
IsRepairOf(new, old, pid) ==
  /\ Len(new) = Cardinality(KeptIdx(old, pid))
  /\ \A j \in 1..Len(new) :
       /\ new[j].product = old[NthKept(old, pid, j)].product
       /\ new[j].stepNumber = j

\* the step in which a deleteProduct request completes with success
DeleteSucceeds == del.pc = "remove" /\ del'.pc = "done" /\ del'.status = 200

\* the routines of the requesting user that were stored when deleteProduct read them
RoutinesBefore == {r \in RoutineIds : del.before[r] # NoRoutine /\ del.before[r].user = del.user}

\* C5 (as claimed): when a successful deleteProduct(p) of user u completes, a
\* routine of u that referenced only p no longer exists, a routine that
\* referenced p and another product holds exactly its former steps without
\* those of p, in order, renumbered 1..N, and the other routines of u are unchanged.
C5_RepairPostcondition ==
  [][DeleteSucceeds =>
       \A r \in RoutinesBefore :
         IF ReferencesProduct(del.before[r], del.pid)
           THEN IF KeptIdx(del.before[r].steps, del.pid) = {}
                  THEN routines'[r] = NoRoutine
                  ELSE /\ routines'[r] # NoRoutine
                       /\ IsRepairOf(routines'[r].steps, del.before[r].steps, del.pid)
           ELSE routines'[r] = del.before[r]]_vars

\* C5 (amended): the same, except that an AI-generated routine of u may have
\* been deleted meanwhile by a regeneration running concurrently with the
\* request; a user-authored routine is exactly as claimed.
C5_RepairPostconditionUnlessReplaced ==
  [][DeleteSucceeds =>
       \A r \in RoutinesBefore :
         LET replaced == del.before[r].isAIGenerated /\ routines'[r] = NoRoutine
         IN IF ReferencesProduct(del.before[r], del.pid)
              THEN IF KeptIdx(del.before[r].steps, del.pid) = {}
                     THEN routines'[r] = NoRoutine
                     ELSE \/ replaced
                          \/ /\ routines'[r] # NoRoutine
                             /\ IsRepairOf(routines'[r].steps, del.before[r].steps, del.pid)
              ELSE replaced \/ routines'[r] = del.before[r]]_vars

\* C5 witness: a delete completed that cut a three-step routine down to two
\* steps and removed a routine whose only step referenced the product.
C5_Witness ==
  /\ del.pc = "done"
  /\ del.status = 200
  /\ \E i \in 1..Len(del.found) :
       /\ Len(del.found[i].steps) = 3
       /\ routines[del.found[i].id] # NoRoutine
       /\ Len(routines[del.found[i].id].steps) = 2
  /\ \E i \in 1..Len(del.found) :
       /\ Len(del.found[i].steps) = 1
       /\ routines[del.found[i].id] = NoRoutine

\* C6: when a persistence operation of integrity repair fails, the request is
\* over with an error response, the product is still in the catalog and the
\* request has dispatched no regeneration.
C6_RepairFailureAbortsDelete ==
  del.repairFailed =>
    /\ del.pc = "done"
    /\ del.status = 500
    /\ products[del.pid] # NoProduct
    /\ ~del.dispatched

\* C6 witness: the repair failed at the second routine, after the first was repaired.
C6_Witness ==
  /\ del.repairFailed
  /\ Len(del.found) >= 2
  /\ del.idx = 2

\* the step in which an updateProduct request is answered with success
UpdateSucceeds == nReq' = nReq + 1 /\ lastResp'.op = "update" /\ lastResp'.status = 200

\* the step changed type, usage or isActive of a product
SignificantFieldChanged ==
  \E pid \in ProductIds :
    /\ products[pid] # NoProduct
    /\ products'[pid] # NoProduct
    /\ \/ products'[pid].type # products[pid].type
       \/ products'[pid].usage # products[pid].usage
       \/ products'[pid].isActive # products[pid].isActive

\* C7: an update dispatches a regeneration if and only if it changed the
\* product's type, usage or active flag.
C7_RegenerationIffSignificantChange ==
  [][UpdateSucceeds => ((nRegens' = nRegens + 1) <=> SignificantFieldChanged)]_vars

\* C8: a regeneration that read fewer than 3 active products is over with the
\* outcome insufficient_products, has not called the AI and has neither
\* deleted nor created a routine.
C8_InsufficientProductsNoAI ==
  \A t \in RegenIds :
    (regens[t].seen >= 0 /\ regens[t].seen < MinProducts) =>
      /\ regens[t].pc = "done"
      /\ regens[t].result = [regenerated |-> FALSE, reason |-> "insufficient_products"]
      /\ regens[t].aiCalls = 0
      /\ regens[t].writes = 0

\* C8 witness: a regeneration ended on exactly two active products.
C8_Witness ==
  \E t \in DoneRegens :
    /\ regens[t].seen = 2
    /\ regens[t].result = [regenerated |-> FALSE, reason |-> "insufficient_products"]

\* every batch that attempted the morning type has attempted the night type
\* when it is over, and a morning routine it created is still counted
NightAttempted ==
  \A t \in DoneRegens :
    /\ regens[t].outcome["morning"] # "none" => regens[t].outcome["night"] # "none"
    /\ (regens[t].outcome["morning"] = "ok" /\ regens[t].outcome["night"] = "error")
         => (regens[t].result.regenerated /\ regens[t].result.count = 1)

\* a step of the night pass of a batch leaves every morning routine as it is
NightPassKeepsMorning ==
  \A t \in RegenIds :
    (regens[t].pc \in {"gen", "delete", "create"} /\ regens[t].typeIdx = 2
       /\ regens'[t] # regens[t]) =>
      \A r \in RoutineIds :
        (routines[r] # NoRoutine /\ routines[r].type = "morning") => routines'[r] = routines[r]

\* C9: in a batch a failure of one routine type never prevents the other type
\* from being attempted: night is attempted after morning failed, and a
\* morning routine already replaced is kept when night fails.
C9_FailureDoesNotAbortOtherType ==
  [][NightAttempted' /\ NightPassKeepsMorning]_vars

\* C9 witness: one batch failed on morning and regenerated night, another
\* regenerated morning and failed on night.
C9_Witness ==
  /\ \E t \in DoneRegens :
       regens[t].outcome["morning"] = "error" /\ regens[t].outcome["night"] = "ok"
  /\ \E t \in DoneRegens :
       regens[t].outcome["morning"] = "ok" /\ regens[t].outcome["night"] = "error"

\* the routine types whose synthesis failed in a batch
FailedTypes(t) == {type \in {"morning", "night"} : regens[t].outcome[type] = "error"}

\* C10: the result of a batch tells which of morning / night failed: two
\* batches that return the same result failed on the same types.
C10_ResultTellsFailedTypes ==
  \A a, b \in DoneRegens :
    regens[a].result = regens[b].result => FailedTypes(a) = FailedTypes(b)

\* a step of the regeneration t that is in flight
RegenStep(t) == regens[t].pc \notin {"unused", "done"} /\ regens'[t] # regens[t]

\* C11: the response of a create, update or delete that dispatches a
\* regeneration is sent while that regeneration has not finished (it is at its
\* first await), it is a success response, and no step of a regeneration,
\* failing or not, changes a response or the state of a request.
C11_ResponseDoesNotAwaitRegeneration ==
  [][/\ (nRegens' = nRegens + 1) =>
          /\ regens'[nRegens'].pc = "find"
          /\ lastResp'.status \in {200, 201}
          /\ lastResp'.autoRegenerate
     /\ \A t \in RegenIds : RegenStep(t) => (lastResp' = lastResp /\ del' = del)]_vars

\* C11 witness: a first regeneration has failed, a delete was answered with
\* success and the regeneration it dispatched has not started to read yet.
C11_Witness ==
  /\ regens[1].pc = "done"
  /\ regens[1].result = [regenerated |-> FALSE, error |-> "Product.find fails"]
  /\ lastResp = [op |-> "delete", status |-> 200, autoRegenerate |-> TRUE]
  /\ nRegens = 2
  /\ regens[2].pc = "find"

\* the least element of a set of indices, 0 for the empty set
LeastOrZero(S) == IF S = {} THEN 0 ELSE CHOOSE i \in S : \A j \in S : i <= j

\* the candidate that the three-tier policy selects: the first exact match,
\* else the first candidate contained in the suggested name, else the first
\* candidate that contains the suggested name, else none (0)
ByTier(catalog, name) ==
  LET idx == 1..Len(catalog)
      low(i) == toLowerCase(catalog[i].name)
      exact == {i \in idx : low(i) = toLowerCase(name)}
      inSuggested == {i \in idx : includes(toLowerCase(name), low(i))}
      hasSuggested == {i \in idx : includes(low(i), toLowerCase(name))}
  IN IF exact # {} THEN LeastOrZero(exact)
     ELSE IF inSuggested # {} THEN LeastOrZero(inSuggested)
     ELSE LeastOrZero(hasSuggested)

\* C12: the matcher selects by tier priority over the whole candidate list: a
\* candidate that matches only by containment is never selected when another
\* candidate matches exactly, whatever the catalog order.
C12_MatchByTierPriority ==
  match.phase = "returned" => match.result = ByTier(match.catalog, match.name)

\* the AI-generated routines of a user and type in a Routine collection
AIRoutinesIn(rs, u, type) ==
  {r \in RoutineIds :
     rs[r] # NoRoutine /\ rs[r].user = u /\ rs[r].type = type /\ rs[r].isAIGenerated}

\* C13: when the routines of a user are synthesized twice in sequence on an
\* unchanged catalog with a deterministic AI, and a type is regenerated both
\* times, then after the second run exactly one AI-generated routine of that
\* type is stored and its steps are those stored after the first run.
C13_SynthesizeTwiceSameRoutine ==
  \A type \in {"morning", "night"} :
    (/\ regens[2].pc = "done"
     /\ regens[1].outcome[type] = "ok"
     /\ regens[2].outcome[type] = "ok") =>
      LET first == AIRoutinesIn(twice.snap, TwiceUser, type)
          second == AIRoutinesIn(routines, TwiceUser, type)
      IN /\ Cardinality(first) = 1
         /\ Cardinality(second) = 1
         /\ \A a \in first, b \in second : routines[b].steps = twice.snap[a].steps

\* C13 witness: both runs regenerated both types, and the morning routine has
\* two steps.
C13_Witness ==
  /\ regens[2].pc = "done"
  /\ \A type \in {"morning", "night"} :
       regens[1].outcome[type] = "ok" /\ regens[2].outcome[type] = "ok"
  /\ \E r \in AIRoutinesIn(routines, TwiceUser, "morning") : Len(routines[r].steps) = 2

\* the event tells how the regeneration ended
Describes(event, result) ==
  \/ event.event = "auto-regenerated" /\ result = [regenerated |-> TRUE, count |-> event.count]
  \/ event.event = "not enough products"
       /\ result = [regenerated |-> FALSE, reason |-> "insufficient_products"]
  \/ event.event = "error" /\ result = [regenerated |-> FALSE, error |-> event.message]

\* C14: every dispatched regeneration eventually terminates when each of its
\* calls settles, and a terminated regeneration has logged an event that tells
\* its outcome: routines regenerated, too few products, or failed.
C14_RegenerationTerminatesAndIsLogged ==
  /\ \A t \in RegenIds :
       [](regens[t].pc = "done" => \E event \in regens[t].log : Describes(event, regens[t].result))
  /\ \A t \in RegenIds : (regens[t].pc = "find") ~> (regens[t].pc = "done")

\* C14 witness: one regeneration ended on too few products and logged it, another
\* ended after a failed pass and a regenerated type and logged both.
C14_Witness ==
  /\ regens[1].pc = "done"
  /\ regens[1].log = {[event |-> "not enough products"]}
  /\ regens[2].pc = "done"
  /\ regens[2].log = {[event |-> "could not regenerate", type |-> "morning"],
                      [event |-> "auto-regenerated", count |-> 1]}

\* the step is taken on behalf of user u: by a regeneration dispatched for u, or
\* by the integrity repair of a deleteProduct of u
ActsFor(u) ==
  \/ \E t \in RegenIds : RegenStep(t) /\ regens[t].user = u
  \/ del.pc = "repair" /\ del' # del /\ del.user = u

\* C15: a step that creates, modifies or deletes a routine is taken on behalf
\* of the user who owns that routine; the routines of every other user are
\* unchanged by it, also when they reference the same product id or have the
\* same type.
C15_RoutinesOfOtherUsersUnchanged ==
  [][\A r \in RoutineIds :
       routines'[r] # routines[r] =>
         \E u \in Users :
           /\ ActsFor(u)
           /\ routines[r] # NoRoutine => routines[r].user = u
           /\ routines'[r] # NoRoutine => routines'[r].user = u]_vars

\* C15 witness: u1 deleted its product 1 and its night routine was regenerated,
\* and the routines of u2, one of the same type and one that references product
\* 1, are stored as before.
C15_Witness ==
  /\ del.pc = "done" /\ del.status = 200 /\ del.user = "u1" /\ del.pid = 1
  /\ \E t \in RegenIds : regens[t].user = "u1" /\ regens[t].outcome["night"] = "ok"
  /\ \A r \in (Len(InitRoutines) + 1)..Len(UsersRoutines) : routines[r] = UsersRoutines[r]

\* the pass of regeneration t for its current type ends in this step without a
\* replacement: the AI call or the parsing failed, or no step was bound
PassEndsWithoutReplacement(t) ==
  /\ regens[t].pc = "gen"
  /\ regens'[t].outcome[routineTypes[regens[t].typeIdx]] \in {"error", "skipped"}

\* C16: a regeneration deletes or creates a routine only while it holds a
\* replacement of at least one bound step for the type; a pass whose AI call or
\* parsing fails, or whose draft binds no step, deletes and creates no routine,
\* does not count the type as regenerated, and goes on to the next type (or
\* returns after the last one).
C16_DeleteOnlyWithReplacement ==
  [][\A t \in RegenIds :
       RegenStep(t) =>
         /\ routines' # routines =>
              /\ regens[t].pc \in {"delete", "create"}
              /\ Len(regens[t].steps) >= 1
         /\ PassEndsWithoutReplacement(t) =>
              /\ routines' = routines
              /\ regens'[t].regeneratedCount = regens[t].regeneratedCount
              /\ regens'[t].writes = regens[t].writes
              /\ IF regens[t].typeIdx < Len(routineTypes)
                   THEN regens'[t].pc = "gen" /\ regens'[t].typeIdx = regens[t].typeIdx + 1
                   ELSE regens'[t].pc = "done"]_vars

\* C16 witness: a regeneration whose morning draft bound no step and whose
\* night AI call failed has returned; it wrote nothing and the AI-generated
\* night routine is still stored.
C16_Witness ==
  \E t \in RegenIds :
    /\ regens[t].pc = "done"
    /\ regens[t].outcome = [type \in {"morning", "night"} |->
                              IF type = "morning" THEN "skipped" ELSE "error"]
    /\ regens[t].aiCalls = 2
    /\ regens[t].writes = 0
    /\ regens[t].result = BatchResult(0)
    /\ routines[2] = InitRoutines[2]

\* C17: the replacement of the AI-generated routine of a (user, type) is
\* atomic: no step of a regeneration leaves the store without an AI-generated
\* routine of that user and type when one was stored before the step, so no
\* concurrent request or regeneration sees the gap, and a failed creation
\* leaves the previous routine stored.
C17_ReplaceIsAtomic ==
  [][\A t \in RegenIds :
       RegenStep(t) =>
         \A type \in {"morning", "night"} :
           AIRoutinesIn(routines, regens[t].user, type) # {} =>
             AIRoutinesIn(routines', regens[t].user, type) # {}]_vars

\* C18: deleteProduct is strictly ordered. A product is removed only by the
\* step after the repair loop, when every routine found to reference it is
\* deleted or no longer references it; a successful delete removes the product
\* and dispatches the regeneration in that same step, not started yet, and a
\* delete dispatches at no other step; the regeneration dispatched by a delete
\* reads a catalog without the deleted product.
C18_DeleteProductOrdered ==
  [][/\ \A p \in ProductIds :
          (products[p] # NoProduct /\ products'[p] = NoProduct) =>
            /\ del.pc = "remove"
            /\ del.pid = p
            /\ del.idx = Len(del.found) + 1
            /\ \A i \in 1..Len(del.found) :
                 \/ routines[del.found[i].id] = NoRoutine
                 \/ ~ReferencesProduct(routines[del.found[i].id], p)
     /\ DeleteSucceeds =>
          /\ products'[del.pid] = NoProduct
          /\ nRegens' = nRegens + 1
          /\ del'.regen = nRegens'
          /\ regens'[nRegens'] = [UnusedTask EXCEPT !.user = del.user, !.pc = "find"]
     /\ (del' # del /\ nRegens' # nRegens) => DeleteSucceeds
     /\ \A t \in RegenIds :
          (RegenStep(t) /\ del.regen = t) =>
            \A i \in 1..Len(regens'[t].products) : regens'[t].products[i].id # del.pid]_vars

\* C18 witness: a product referenced by two routines was deleted, and the
\* regeneration the delete dispatched has read a catalog of three other products.
C18_Witness ==
  /\ del.pc = "done" /\ del.status = 200
  /\ Len(del.found) = 2
  /\ del.regen # 0
  /\ regens[del.regen].pc = "gen"
  /\ Len(regens[del.regen].products) = 3
  /\ \A i \in 1..3 : regens[del.regen].products[i].id # del.pid

\* the text of the answer opens a JSON object and holds no closing brace: it
\* was cut off inside the object
CutOff(text) ==
  /\ \E i \in 1..Len(text) : text[i] = "{"
  /\ \A i \in 1..Len(text) : text[i] # "}"

\* the errors that tell the caller the response was truncated
TruncationErrors ==
  {<<"Response too long. Please try with fewer products.">>,
   <<"AI response was truncated. Please try again.">>}

\* C19: a truncated AI response always surfaces as a truncation error and
\* never as an invalid-format error, both when the provider reports
\* truncation by length and when the text breaks off inside the JSON object so
\* that its brace span does not end in "}".
C19_TruncatedNeverMalformed ==
  (/\ parse.phase = "returned"
   /\ \/ parse.finishReason = "MAX_TOKENS"
      \/ parse.finishReason = "STOP" /\ CutOff(parse.text)) =>
    parse.result.error \in TruncationErrors

\* C20: a step of a regeneration leaves every user-authored routine
\* (isAIGenerated = false) stored exactly as it was, whatever its type, and
\* stores no new user-authored routine; so after any sequence of regenerations
\* the manual routines and their steps are as before.
C20_RegenerationKeepsManualRoutines ==
  [][\A t \in RegenIds :
       RegenStep(t) =>
         \A r \in RoutineIds :
           /\ (routines[r] # NoRoutine /\ ~routines[r].isAIGenerated) => routines'[r] = routines[r]
           /\ (routines[r] = NoRoutine /\ routines'[r] # NoRoutine) => routines'[r].isAIGenerated]_vars

\* C20 witness: regenerations of both users have replaced the AI-generated
\* night routines, and the manual morning routine of u1 and the manual night
\* routine of u2 are stored as at the start.
C20_Witness ==
  /\ \A u \in Users :
       \E t \in RegenIds :
         regens[t].user = u /\ regens[t].pc = "done" /\ regens[t].outcome["night"] = "ok"
  /\ routines[1] = UsersRoutines[1]
  /\ routines[4] = UsersRoutines[4]
  /\ routines[2] = NoRoutine
  /\ routines[3] = NoRoutine

\* the stored Streak documents
StoredStreaks == {u \in Users : streaks.docs[u] # NoStreak}

\* the step is a successful updateStreak of u on a day on which u's last
\* successful updateStreak took place
SecondUpdateOfTheDay(u) ==
  /\ streaks'.now = streaks.now
  /\ streaks'.last = [op |-> "updateStreak", user |-> u, status |-> 200]
  /\ streaks'.docs[u] # NoStreak
  /\ streaks.docs[u] # NoStreak
  /\ streaks.updated[u].day = streaks.now.day

\* C21: after any sequence of getStreak and updateStreak calls on days that do
\* not decrease, every streak has 1 <= currentStreak <= longestStreak, and a
\* second updateStreak of a user on the same calendar day leaves currentStreak,
\* longestStreak, totalLogins and the number of loginHistory entries as they were.
C21_StreakBoundsAndSameDayUpdate ==
  /\ [](\A u \in StoredStreaks :
          /\ 1 <= streaks.docs[u].currentStreak
          /\ streaks.docs[u].currentStreak <= streaks.docs[u].longestStreak)
  /\ [][\A u \in Users :
          SecondUpdateOfTheDay(u) =>
            /\ streaks'.docs[u].currentStreak = streaks.docs[u].currentStreak
            /\ streaks'.docs[u].longestStreak = streaks.docs[u].longestStreak
            /\ streaks'.docs[u].totalLogins = streaks.docs[u].totalLogins
            /\ Len(streaks'.docs[u].loginHistory) = Len(streaks.docs[u].loginHistory)]_vars

\* C21 witness: u1, with a streak of HistoryLimit days, missed a day and then
\* called updateStreak twice on the same day: the streak is 1, the longest is
\* still HistoryLimit, and the history was cut to HistoryLimit entries.
C21_Witness ==
  /\ streaks.docs["u1"] # NoStreak
  /\ streaks.updated["u1"] = [day |-> StartDay + 2, repeated |-> TRUE]
  /\ streaks.now = [day |-> StartDay + 2, hour |-> 9]
  /\ streaks.last = [op |-> "updateStreak", user |-> "u1", status |-> 200]
  /\ streaks.docs["u1"].currentStreak = 1
  /\ streaks.docs["u1"].longestStreak = HistoryLimit
  /\ streaks.docs["u1"].totalLogins = HistoryLimit + 1
  /\ Len(streaks.docs["u1"].loginHistory) = HistoryLimit
  /\ streaks.docs["u1"].lastLoginDate = [day |-> StartDay + 2, hour |-> 0]

====
